---------------------------- MODULE Spec2Model ----------------------------
(***************************************************************************)
(* Resilient inter-service HTTP client of the campus-services mesh:        *)
(* shared/http_client.py (CircuitBreaker, HTTPClient, send_notification,   *)
(* notify_admins) with the defaults of shared/config.py.                   *)
(*                                                                         *)
(* A logical call is executed by a thread, one source statement per step,  *)
(* so that calls of several threads interleave the way Python threads do.  *)
(* The wall clock (time.time()) is the variable now. It is advanced by     *)
(* Tick, in steps of half a minute or more, between calls and while a      *)
(* caller sleeps. The seconds of time.sleep(wait_time) are below that      *)
(* resolution: they are recorded in the thread's record (sleeps) and do    *)
(* not move the clock by themselves.                                       *)
(***************************************************************************)
EXTENDS Integers, Sequences, FiniteSets, TLC

\* now: time.time(); circuit_breakers: HTTPClient.circuit_breakers, host -> index
\* into breakers (0: no entry); breakers: the CircuitBreaker objects created so
\* far; pc, local: each thread's position and local variables.
\* History only: consec[h], the failure reports made for host h since the last
\* success report; lastUrl[h], the URL of the call that made the last report.
\* client: the HTTPClient object the calls go through.
\* request, results: a maintenance request (the dictionary handed to
\* EnhancedMaintenanceNLP.analyze) and the results of the calls made with it.
\* requests, batch: the list handed to process_batch_requests and what the
\* call returned.
VARIABLES now, circuit_breakers, breakers, pc, local, consec, lastUrl,
          client, request, results, requests, batch

vars == <<now, circuit_breakers, breakers, pc, local, consec, lastUrl,
          client, request, results, requests, batch>>

\* what no step of a logical call touches
others == <<client, request, results, requests, batch>>

(* ------------------------- program constants --------------------------- *)

failure_threshold == 5

timeout == 60

\* the default of REQUEST_RETRY_ATTEMPTS
RetryAttemptsDefault == 3

backoff_factor == 1

(* ------------------------------ bounds --------------------------------- *)

MaxTime == 125

MaxBreakers == 3

\* failure reports in a row after which no further call is started
MaxReports == 8

TickSteps == {30, 31}

CoarseTickSteps == {61}

Threads == {"t1", "t2"}

\* Python's None in an integer field (last_failure_time before any failure)
None == 0 - 1

(* ------------------------------ the client ---------------------------- *)

\* Python's "a or b" on an optional number: None and 0 are false
Or(a, b) == IF a = None \/ a = 0 THEN b ELSE a

\* int(os.getenv('REQUEST_RETRY_ATTEMPTS', '3')); env = None: variable not set
REQUEST_RETRY_ATTEMPTS(env) == IF env = None THEN RetryAttemptsDefault ELSE env

\* HTTPClient(max_retries=arg): self.max_retries = max_retries or
\* config.REQUEST_RETRY_ATTEMPTS
HTTPClient(arg, env) ==
    [constructed |-> TRUE, arg |-> arg,
     max_retries |-> Or(arg, REQUEST_RETRY_ATTEMPTS(env))]

\* before the constructor has run
NoClient == [constructed |-> FALSE, arg |-> None, max_retries |-> None]

\* self.max_retries
max_retries == client.max_retries

\* the empty dictionary: no maintenance request at hand
NoRequest == <<>>

\* process_batch_requests not called yet
NoBatch == <<>>

(* ------------------------------- URLs ---------------------------------- *)
(* A URL is the sequence of its pieces between "/" characters:             *)
(* "http://localhost:8004/notifications" is                                *)
(* <<"http:", "", "localhost:8004", "notifications">>.                     *)

ServiceUrl(service) ==
    IF service = "notifications" THEN <<"http:", "", "localhost:8004">>
    ELSE IF service = "booking" THEN <<"http:", "", "localhost:8001">>
    ELSE <<"">>

NotificationsUrl == ServiceUrl("notifications") \o <<"notifications">>

AdminUrl == ServiceUrl("notifications") \o <<"notifications", "admin">>

BookingUrl == ServiceUrl("booking") \o <<"bookings">>

SecureUrl == <<"https:", "", "localhost:8004", "notifications">>

AllUrls == {NotificationsUrl, AdminUrl, BookingUrl, SecureUrl}

\* positions of an empty piece between two slashes, i.e. of a "//" in the url
DoubleSlashAt(url) == {j \in 2..(Len(url) - 1) : url[j] = ""}

Min(S) == CHOOSE x \in S : \A y \in S : x <= y

\* the key taken from the wrong end of the URL: its last piece
HostKeyLastPiece(url) == url[Len(url)]

\* the key taken before the "//": the scheme
HostKeyScheme(url) == url[1]

\* url.split('//')[1].split('/')[0] if '//' in url else url.split('/')[0]
HostKey(url) ==
    IF DoubleSlashAt(url) # {} THEN url[Min(DoubleSlashAt(url)) + 1]
    ELSE url[1]

HostKeys == {HostKey(u) : u \in AllUrls}

\* scheme and host of an absolute URL, as the URL itself spells them
Scheme(url) == url[1]

Host(url) == url[3]

Hosts == {Host(u) : u \in AllUrls}

(* --------------------------- circuit breaker --------------------------- *)

NewBreaker == [failure_count |-> 0, last_failure_time |-> None, state |-> "closed"]

(* ------------------------------ threads -------------------------------- *)

Kinds == {"get", "post", "put", "delete", "send_notification", "notify_admins"}

ClientKinds == {"get", "post", "put", "delete"}

Method(kind) ==
    CASE kind = "get" -> "GET"
      [] kind = "put" -> "PUT"
      [] kind = "delete" -> "DELETE"
      [] OTHER -> "POST"

Statuses == {200, 201, 404, 503}

NetOutcomes ==
    [type : {"response"}, status : Statuses]
      \cup {[type |-> "ConnectionError", status |-> 0],
            [type |-> "OtherException", status |-> 0]}

NoResult == [kind |-> "none", status |-> 0, exc |-> "none", value |-> FALSE]

IdleLocal ==
    [kind |-> "none", url |-> <<>>, host |-> "none", cb |-> 0,
     attempt |-> 0, last_exception |-> "none", tmp |-> 0, result |-> NoResult,
     nAttempts |-> 0, sleeps |-> <<>>, all503 |-> TRUE, trial |-> FALSE,
     nSuccess |-> 0, nFailure |-> 0, returned |-> NoResult]

\* no call made yet: an empty registry, every thread idle
InitCalls ==
    /\ now = 0
    /\ circuit_breakers = [h \in HostKeys |-> 0]
    /\ breakers = <<>>
    /\ pc = [t \in Threads |-> "idle"]
    /\ local = [t \in Threads |-> IdleLocal]
    /\ consec = [h \in Hosts |-> 0]
    /\ lastUrl = [h \in Hosts |-> <<>>]

\* the module's own client: http_client = HTTPClient()
Init ==
    /\ InitCalls
    /\ client = HTTPClient(None, None)
    /\ request = NoRequest
    /\ results = <<>>
    /\ requests = <<>>
    /\ batch = NoBatch

\* no client constructed yet
InitCtor ==
    /\ InitCalls
    /\ client = NoClient
    /\ request = NoRequest
    /\ results = <<>>
    /\ requests = <<>>
    /\ batch = NoBatch

\* client = HTTPClient(max_retries=arg), in a process whose environment
\* gives REQUEST_RETRY_ATTEMPTS the value env
Construct(arg, env) ==
    /\ ~client.constructed
    /\ client' = HTTPClient(arg, env)
    /\ UNCHANGED <<now, circuit_breakers, breakers, pc, local, consec, lastUrl,
                   request, results, requests, batch>>


ThreadStep(t, newpc, newlocal) ==
    /\ pc' = [pc EXCEPT ![t] = newpc]
    /\ local' = [local EXCEPT ![t] = newlocal]
    /\ UNCHANGED others

\* an except clause that lets the breaker's own exception through
DeliverLeaky(kind, res) ==
    IF kind \in {"get", "post", "put", "delete"} \/ res.exc = "CircuitOpen" THEN res
    ELSE [kind |-> "returned", status |-> 0, exc |-> "none",
          value |-> (res.kind = "response" /\ res.status = 201)]

\* what the entry point hands to its caller: the client methods hand on the
\* response or the exception; send_notification and notify_admins catch every
\* Exception and return a boolean
Deliver(kind, res) ==
    IF kind \in ClientKinds THEN res
    ELSE [kind |-> "returned", status |-> 0, exc |-> "none",
          value |-> (res.kind = "response" /\ res.status = 201)]

\* the logical call ends: its outcome on the wire is res
Finish(t, l, res) ==
    ThreadStep(t, "done", [l EXCEPT !.result = res, !.returned = Deliver(l.kind, res)])

Response(status) == [kind |-> "response", status |-> status, exc |-> "none", value |-> FALSE]

Raised(exc, status) == [kind |-> "raised", status |-> status, exc |-> exc, value |-> FALSE]

\* HTTPClient.get/post/put/delete, send_notification, notify_admins: entry
BeginCall(t, kind, url) ==
    /\ pc[t] = "idle"
    /\ client.constructed
    /\ consec[Host(url)] < MaxReports
    /\ \A b \in 1..Len(breakers) : breakers[b].failure_count < MaxReports
    /\ kind = "send_notification" => url = NotificationsUrl
    /\ kind = "notify_admins" => url = AdminUrl
    /\ ThreadStep(t, "get_cb",
                  [IdleLocal EXCEPT !.kind = kind, !.url = url])
    /\ UNCHANGED <<now, circuit_breakers, breakers, consec, lastUrl>>

\* _get_circuit_breaker: the key and the membership test
GetCb(t) ==
    /\ pc[t] = "get_cb"
    /\ LET host == HostKey(local[t].url) IN
         ThreadStep(t, IF circuit_breakers[host] = 0 THEN "create_cb" ELSE "read_cb",
                    [local[t] EXCEPT !.host = host])
    /\ UNCHANGED <<now, circuit_breakers, breakers, consec, lastUrl>>

\* self.circuit_breakers[host] = CircuitBreaker()
CreateCb(t) ==
    /\ pc[t] = "create_cb"
    /\ Len(breakers) < MaxBreakers
    /\ breakers' = Append(breakers, NewBreaker)
    /\ circuit_breakers' = [circuit_breakers EXCEPT ![local[t].host] = Len(breakers) + 1]
    /\ ThreadStep(t, "read_cb", local[t])
    /\ UNCHANGED <<now, consec, lastUrl>>

\* return self.circuit_breakers[host]
ReadCb(t) ==
    /\ pc[t] = "read_cb"
    /\ ThreadStep(t, "call", [local[t] EXCEPT !.cb = circuit_breakers[local[t].host]])
    /\ UNCHANGED <<now, circuit_breakers, breakers, consec, lastUrl>>

Elapsed(b) == now - breakers[b].last_failure_time

\* the elapsed time compared with >= instead of >
CallCheckEarly(t) ==
    /\ pc[t] = "call"
    /\ LET l == local[t]
           b == l.cb
       IN IF breakers[b].state = "open"
          THEN IF Elapsed(b) >= timeout
               THEN ThreadStep(t, "set_half", [l EXCEPT !.trial = TRUE])
               ELSE Finish(t, l, Raised("CircuitOpen", 0))
          ELSE ThreadStep(t, "attempt", l)
    /\ UNCHANGED <<now, circuit_breakers, breakers, consec, lastUrl>>

\* a rejection that counts as a failure: it moves last_failure_time
CallCheckExtending(t) ==
    /\ pc[t] = "call"
    /\ LET l == local[t]
           b == l.cb
       IN IF breakers[b].state = "open"
          THEN IF Elapsed(b) > timeout
               THEN ThreadStep(t, "set_half", [l EXCEPT !.trial = TRUE]) /\ UNCHANGED breakers
               ELSE /\ Finish(t, l, Raised("CircuitOpen", 0))
                    /\ breakers' = [breakers EXCEPT ![b].last_failure_time = now]
          ELSE ThreadStep(t, "attempt", l) /\ UNCHANGED breakers
    /\ UNCHANGED <<now, circuit_breakers, consec, lastUrl>>

\* CircuitBreaker.call: the test of the state and of the elapsed time
CallCheck(t) ==
    /\ pc[t] = "call"
    /\ LET l == local[t]
           b == l.cb
       IN IF breakers[b].state = "open"
          THEN IF Elapsed(b) > timeout
               THEN ThreadStep(t, "set_half", [l EXCEPT !.trial = TRUE])
               ELSE Finish(t, l, Raised("CircuitOpen", 0))
          ELSE ThreadStep(t, "attempt", l)
    /\ UNCHANGED <<now, circuit_breakers, breakers, consec, lastUrl>>

\* self.state = 'half_open'
SetHalfOpen(t) ==
    /\ pc[t] = "set_half"
    /\ breakers' = [breakers EXCEPT ![local[t].cb].state = "half_open"]
    /\ ThreadStep(t, "attempt", local[t])
    /\ UNCHANGED <<now, circuit_breakers, consec, lastUrl>>

\* 2 * attempt written for 2 ** attempt
WaitTimeProduct(attempt) == backoff_factor * (2 * attempt)

\* wait_time = self.backoff_factor * (2 ** attempt)
WaitTime(attempt) == backoff_factor * (2 ^ attempt)

\* a retry loop that raises for every status from 400 on, and gives up at
\* once on a status below 500
AttemptRaising(t, o) ==
    /\ pc[t] = "attempt"
    /\ local[t].attempt < max_retries
    /\ LET l == [local[t] EXCEPT !.nAttempts = @ + 1, !.all503 = @ /\ o.type = "response" /\ o.status = 503]
           e == IF o.type = "response"
                THEN [type |-> "HTTPError", status |-> o.status]
                ELSE [type |-> o.type, status |-> 0]
       IN IF o.type = "response" /\ ~(o.status >= 400)
          THEN ThreadStep(t, "on_success_count", [l EXCEPT !.result = Response(o.status)])
          ELSE IF o.type = "OtherException"
          THEN ThreadStep(t, "on_failure_read", [l EXCEPT !.result = Raised(e.type, 0)])
          ELSE IF e.status >= 400 /\ e.status < 500
          THEN ThreadStep(t, "on_failure_read",
                          [l EXCEPT !.last_exception = e.type,
                                    !.result = Raised(e.type, e.status)])
          ELSE IF l.attempt < max_retries - 1
          THEN ThreadStep(t, "sleep", [l EXCEPT !.last_exception = e.type,
                                                !.result = Raised(e.type, e.status)])
          ELSE ThreadStep(t, "on_failure_read",
                          [l EXCEPT !.last_exception = e.type,
                                    !.result = Raised(e.type, e.status)])
    /\ UNCHANGED <<now, circuit_breakers, breakers, consec, lastUrl>>

\* a retry loop that takes every status from 400 on for a failure
AttemptStrict(t, o) ==
    /\ pc[t] = "attempt"
    /\ local[t].attempt < max_retries
    /\ LET l == [local[t] EXCEPT !.nAttempts = @ + 1, !.all503 = @ /\ o.type = "response" /\ o.status = 503]
           e == IF o.type = "response"
                THEN [type |-> "HTTPError", status |-> o.status]
                ELSE [type |-> o.type, status |-> 0]
       IN IF o.type = "response" /\ ~(o.status >= 400)
          THEN ThreadStep(t, "on_success_count", [l EXCEPT !.result = Response(o.status)])
          ELSE IF l.attempt < max_retries - 1
          THEN ThreadStep(t, "sleep", [l EXCEPT !.last_exception = e.type,
                                                !.result = Raised(e.type, e.status)])
          ELSE ThreadStep(t, "on_failure_read",
                          [l EXCEPT !.last_exception = e.type,
                                    !.result = Raised(e.type, e.status)])
    /\ UNCHANGED <<now, circuit_breakers, breakers, consec, lastUrl>>

\* _make_request: one pass of the retry loop, the network answering o
Attempt(t, o) ==
    /\ pc[t] = "attempt"
    /\ local[t].attempt < max_retries
    /\ LET l == [local[t] EXCEPT !.nAttempts = @ + 1, !.all503 = @ /\ o.type = "response" /\ o.status = 503]
           e == IF o.type = "response"
                THEN [type |-> "HTTPError", status |-> o.status]
                ELSE [type |-> o.type, status |-> 0]
       IN IF o.type = "response" /\ ~(o.status >= 500)
          THEN ThreadStep(t, "on_success_count", [l EXCEPT !.result = Response(o.status)])
          ELSE IF o.type = "OtherException"
          THEN ThreadStep(t, "on_failure_read", [l EXCEPT !.result = Raised(e.type, 0)])
          ELSE IF e.status >= 400 /\ e.status < 500
          THEN ThreadStep(t, "on_failure_read",
                          [l EXCEPT !.last_exception = e.type,
                                    !.result = Raised(e.type, e.status)])
          ELSE IF l.attempt < max_retries - 1
          THEN ThreadStep(t, "sleep", [l EXCEPT !.last_exception = e.type,
                                                !.result = Raised(e.type, e.status)])
          ELSE ThreadStep(t, "on_failure_read",
                          [l EXCEPT !.last_exception = e.type,
                                    !.result = Raised(e.type, e.status)])
    /\ UNCHANGED <<now, circuit_breakers, breakers, consec, lastUrl>>

\* _make_request: range(self.max_retries) is empty, the loop body never runs
\* and "raise last_exception" raises None, which Python turns into TypeError
NoAttempt(t) ==
    /\ pc[t] = "attempt"
    /\ ~(local[t].attempt < max_retries)
    /\ ThreadStep(t, "on_failure_read",
                  [local[t] EXCEPT !.result = Raised("TypeError", 0)])
    /\ UNCHANGED <<now, circuit_breakers, breakers, consec, lastUrl>>

\* a retry loop that reports each failed attempt to the breaker
SleepReporting(t) ==
    /\ pc[t] = "sleep"
    /\ breakers' = [breakers EXCEPT ![local[t].cb].failure_count = @ + 1]
    /\ ThreadStep(t, "attempt",
                  [local[t] EXCEPT !.sleeps = Append(@, WaitTime(local[t].attempt)),
                                   !.attempt = @ + 1, !.result = NoResult])
    /\ UNCHANGED <<now, circuit_breakers, consec, lastUrl>>

\* time.sleep(wait_time), then the next pass of the loop
Sleep(t) ==
    /\ pc[t] = "sleep"
    /\ ThreadStep(t, "attempt",
                  [local[t] EXCEPT !.sleeps = Append(@, WaitTime(local[t].attempt)),
                                   !.attempt = @ + 1, !.result = NoResult])
    /\ UNCHANGED <<now, circuit_breakers, breakers, consec, lastUrl>>

\* an on_success that leaves the count as it is
OnSuccessCountKept(t) ==
    /\ pc[t] = "on_success_count"
    /\ ThreadStep(t, "on_success_state", [local[t] EXCEPT !.nSuccess = @ + 1])
    /\ consec' = [consec EXCEPT ![Host(local[t].url)] = 0]
    /\ lastUrl' = [lastUrl EXCEPT ![Host(local[t].url)] = local[t].url]
    /\ UNCHANGED <<now, circuit_breakers, breakers>>

\* on_success: self.failure_count = 0
OnSuccessCount(t) ==
    /\ pc[t] = "on_success_count"
    /\ breakers' = [breakers EXCEPT ![local[t].cb].failure_count = 0]
    /\ ThreadStep(t, "on_success_state", [local[t] EXCEPT !.nSuccess = @ + 1])
    /\ consec' = [consec EXCEPT ![Host(local[t].url)] = 0]
    /\ lastUrl' = [lastUrl EXCEPT ![Host(local[t].url)] = local[t].url]
    /\ UNCHANGED <<now, circuit_breakers>>

\* an on_success that leaves the state as it is
OnSuccessStateKept(t) ==
    /\ pc[t] = "on_success_state"
    /\ Finish(t, local[t], local[t].result)
    /\ UNCHANGED <<now, circuit_breakers, breakers, consec, lastUrl>>

\* on_success: self.state = 'closed'; call returns the result
OnSuccessState(t) ==
    /\ pc[t] = "on_success_state"
    /\ breakers' = [breakers EXCEPT ![local[t].cb].state = "closed"]
    /\ Finish(t, local[t], local[t].result)
    /\ UNCHANGED <<now, circuit_breakers, consec, lastUrl>>

\* on_failure: self.failure_count += 1, the read
OnFailureRead(t) ==
    /\ pc[t] = "on_failure_read"
    /\ ThreadStep(t, "on_failure_write",
                  [local[t] EXCEPT !.tmp = breakers[local[t].cb].failure_count])
    /\ UNCHANGED <<now, circuit_breakers, breakers, consec, lastUrl>>

\* a failure counted twice
OnFailureWriteTwice(t) ==
    /\ pc[t] = "on_failure_write"
    /\ breakers' = [breakers EXCEPT ![local[t].cb].failure_count = local[t].tmp + 2]
    /\ ThreadStep(t, "on_failure_time", [local[t] EXCEPT !.nFailure = @ + 1, !.tmp = 0])
    /\ consec' = [consec EXCEPT ![Host(local[t].url)] = @ + 1]
    /\ lastUrl' = [lastUrl EXCEPT ![Host(local[t].url)] = local[t].url]
    /\ UNCHANGED <<now, circuit_breakers>>

\* on_failure: self.failure_count += 1, the write
OnFailureWrite(t) ==
    /\ pc[t] = "on_failure_write"
    /\ breakers' = [breakers EXCEPT ![local[t].cb].failure_count = local[t].tmp + 1]
    /\ ThreadStep(t, "on_failure_time", [local[t] EXCEPT !.nFailure = @ + 1, !.tmp = 0])
    /\ consec' = [consec EXCEPT ![Host(local[t].url)] = @ + 1]
    /\ lastUrl' = [lastUrl EXCEPT ![Host(local[t].url)] = local[t].url]
    /\ UNCHANGED <<now, circuit_breakers>>

\* on_failure without the time stamp
OnFailureTimeStale(t) ==
    /\ pc[t] = "on_failure_time"
    /\ ThreadStep(t, "on_failure_check", local[t])
    /\ UNCHANGED <<now, circuit_breakers, breakers, consec, lastUrl>>

\* on_failure: self.last_failure_time = time.time()
OnFailureTime(t) ==
    /\ pc[t] = "on_failure_time"
    /\ breakers' = [breakers EXCEPT ![local[t].cb].last_failure_time = now]
    /\ ThreadStep(t, "on_failure_check", local[t])
    /\ UNCHANGED <<now, circuit_breakers, consec, lastUrl>>

\* the threshold compared with > instead of >=
OnFailureCheckLate(t) ==
    /\ pc[t] = "on_failure_check"
    /\ breakers' = IF breakers[local[t].cb].failure_count > failure_threshold
                   THEN [breakers EXCEPT ![local[t].cb].state = "open"]
                   ELSE breakers
    /\ Finish(t, local[t], local[t].result)
    /\ UNCHANGED <<now, circuit_breakers, consec, lastUrl>>

\* on_failure: the threshold test; call re-raises the exception
OnFailureCheck(t) ==
    /\ pc[t] = "on_failure_check"
    /\ breakers' = IF breakers[local[t].cb].failure_count >= failure_threshold
                   THEN [breakers EXCEPT ![local[t].cb].state = "open"]
                   ELSE breakers
    /\ Finish(t, local[t], local[t].result)
    /\ UNCHANGED <<now, circuit_breakers, consec, lastUrl>>

\* the caller takes the outcome; the thread is free for its next call
Return(t) ==
    /\ pc[t] = "done"
    /\ ThreadStep(t, "idle", IdleLocal)
    /\ UNCHANGED <<now, circuit_breakers, breakers, consec, lastUrl>>

\* the wall clock moves on, between calls or while a caller sleeps
Tick(d) ==
    /\ \A t \in Threads : pc[t] \in {"idle", "sleep"}
    /\ now + d <= MaxTime
    /\ now' = now + d
    /\ UNCHANGED <<circuit_breakers, breakers, pc, local, consec, lastUrl>>
    /\ UNCHANGED others

Step(t) ==
    \/ GetCb(t)
    \/ CreateCb(t)
    \/ ReadCb(t)
    \/ CallCheck(t)
    \/ SetHalfOpen(t)
    \/ Sleep(t)
    \/ OnSuccessCount(t)
    \/ OnSuccessState(t)
    \/ OnFailureRead(t)
    \/ OnFailureWrite(t)
    \/ OnFailureTime(t)
    \/ OnFailureCheck(t)
    \/ Return(t)

Quiet == \A t \in Threads : pc[t] = "idle"

\* one notification host, calls one after the other
SeqUrls == {NotificationsUrl, AdminUrl}

SeqKinds == {"get", "post", "send_notification", "notify_admins"}

Next ==
    \/ \E kind \in SeqKinds, url \in SeqUrls : Quiet /\ BeginCall("t1", kind, url)
    \/ \E t \in Threads : Step(t)
    \/ \E t \in Threads, o \in NetOutcomes : Attempt(t, o)
    \/ \E d \in TickSteps : Tick(d)

Spec == Init /\ [][Next]_vars

\* several hosts, calls one after the other
HostsUrls == AllUrls

NextHosts ==
    \/ \E url \in HostsUrls : Quiet /\ BeginCall("t1", "delete", url)
    \/ \E t \in Threads : Step(t)
    \/ \E t \in Threads, o \in NetOutcomes : Attempt(t, o)
    \/ \E d \in CoarseTickSteps : Tick(d)

SpecHosts == Init /\ [][NextHosts]_vars

\* one host, the calls of two threads overlapping
ConcOutcomes == {o \in NetOutcomes : o.type = "response" /\ o.status \in {201, 503}}

NextConc ==
    \/ \E t \in Threads : BeginCall(t, "put", NotificationsUrl)
    \/ \E t \in Threads : Step(t)
    \/ \E t \in Threads, o \in ConcOutcomes : Attempt(t, o)
    \/ \E d \in CoarseTickSteps : Tick(d)

SpecConc == Init /\ [][NextConc]_vars

\* clients constructed with a retry count of the caller's choice
RetryArgs == {None, 0, 1, 2}

RetryEnvs == {None, 0}

CtorOutcomes == {o \in NetOutcomes : o.type = "ConnectionError" \/ o.status \in {200, 404, 503}}

NextCtor ==
    \/ \E arg \in RetryArgs, env \in RetryEnvs : Construct(arg, env)
    \/ Quiet /\ BeginCall("t1", "get", NotificationsUrl)
    \/ \E t \in Threads : Step(t)
    \/ \E t \in Threads : NoAttempt(t)
    \/ \E t \in Threads, o \in CtorOutcomes : Attempt(t, o)
    \/ \E d \in CoarseTickSteps : Tick(d)

SpecCtor == InitCtor /\ [][NextCtor]_vars

\* a host that recovers: from HealTime on every attempt is answered 200
HealTime == 62

RecoverUrl == NotificationsUrl

RecoverOutcomes == {o \in NetOutcomes : o.type = "response" /\ o.status \in {200, 503}}

\* the network answers thread t
Answer(t) ==
    \E o \in RecoverOutcomes : (o.status >= 500 => now < HealTime) /\ Attempt(t, o)

NextRecover ==
    \/ Quiet /\ BeginCall("t1", "get", RecoverUrl)
    \/ \E t \in Threads : Step(t)
    \/ \E t \in Threads : Answer(t)
    \/ \E d \in CoarseTickSteps : Tick(d)

\* a thread that can go on does, the network answers, the callers keep
\* calling, and the clock keeps moving while calls come and go
FairRecover ==
    /\ \A t \in Threads : WF_vars(Step(t))
    /\ \A t \in Threads : WF_vars(Answer(t))
    /\ WF_vars(Quiet /\ BeginCall("t1", "get", RecoverUrl))
    /\ SF_vars(\E d \in CoarseTickSteps : Tick(d))

SpecRecover == Init /\ [][NextRecover]_vars /\ FairRecover


(* ------------------ maintenance request prioritisation ---------------- *)
(* maintenance/enhanced_model.py. A text is a string; "p in text" is the    *)
(* substring test on its characters, and the words are what               *)
(* preprocess_text leaves of it. A weight w of the source's tables is kept  *)
(* in tenths (2.5 is 25), a score as the fraction num / den.               *)

\* the tables of __init__, each in the order in which the code walks it
critical_patterns ==
    <<"down", "outage", "offline", "unavailable", "crashed", "not responding",
      "breach", "hacked", "ransomware", "malware", "virus", "unauthorized access",
      "data loss", "deleted", "corrupted", "backup failed", "cannot recover",
      "emergency", "urgent", "critical", "fire", "flood", "gas leak",
      "electrical hazard",
      "cannot access", "locked out", "denied", "blocked", "forbidden",
      "complete failure", "total loss", "entire system", "all services">>

high_patterns ==
    <<"error", "failing", "broken", "not working", "malfunctioning",
      "very slow", "extremely slow", "timeout", "hanging", "freezing",
      "connection", "network issue", "vpn", "cannot connect",
      "cannot login", "login failed", "password", "authentication",
      "water leak", "leaking", "hvac", "no cooling", "no heating", "pipe burst">>

medium_patterns ==
    <<"install", "upgrade", "update", "configure", "setup",
      "sometimes", "intermittent", "occasional", "glitch",
      "need access", "request access", "permission">>

negations == {"not", "no", "none", "neither", "never", "nobody"}

intensifiers ==
    <<<<"extreme", 20>>, <<"critical", 18>>, <<"severe", 17>>, <<"major", 16>>,
      <<"urgent", 15>>, <<"serious", 14>>, <<"important", 13>>,
      <<"significant", 13>>>>

diminishers ==
    <<<<"minor", 6>>, <<"small", 7>>, <<"slight", 7>>, <<"little", 8>>,
      <<"maybe", 8>>, <<"possibly", 8>>, <<"occasionally", 7>>>>

system_weights ==
    <<<<"production", 25>>, <<"prod", 25>>, <<"live", 23>>,
      <<"database", 22>>, <<"db", 22>>, <<"server", 20>>,
      <<"network", 20>>, <<"security", 23>>, <<"firewall", 22>>,
      <<"domain controller", 22>>, <<"active directory", 21>>,
      <<"backup", 20>>, <<"email", 18>>, <<"vpn", 18>>,
      <<"web", 17>>, <<"application", 15>>, <<"app", 15>>,
      <<"workstation", 13>>, <<"laptop", 12>>, <<"desktop", 12>>,
      <<"printer", 11>>, <<"scanner", 11>>,
      <<"building", 20>>, <<"infrastructure", 19>>, <<"facility", 18>>,
      <<"data center", 25>>, <<"server room", 23>>,
      <<"electrical", 22>>, <<"hvac", 20>>, <<"plumbing", 19>>,
      <<"basement", 16>>>>

scope_weights ==
    <<<<"all users", 30>>, <<"everyone", 30>>, <<"entire company", 30>>,
      <<"entire department", 25>>, <<"whole team", 23>>, <<"department", 22>>,
      <<"multiple users", 20>>, <<"several users", 18>>, <<"team", 17>>,
      <<"few users", 13>>, <<"one user", 10>>>>

\* detect_urgency: the alternatives of each regular expression, its score in
\* tenths, and the term it is reported as
urgency_patterns ==
    <<[alts |-> {"emergency", "urgent", "critical", "asap", "immediately", "right now"},
       score |-> 50, term |-> "emergency|urgent|critical|asap|immediately|right now"],
      [alts |-> {"can't work", "cannot work", "blocking", "stopped", "stuck"},
       score |-> 40, term |-> "can\\'t work|cannot work|blocking|stopped|stuck"],
      [alts |-> {"today", "this morning", "this afternoon", "now"},
       score |-> 25, term |-> "today|this morning|this afternoon|now"],
      [alts |-> {"soon", "quickly", "priority", "important"},
       score |-> 15, term |-> "soon|quickly|priority|important"]>>

(* ------------------------------- strings ------------------------------- *)

Char(s, i) == SubSeq(s, i, i)

LowerCase ==
    {"a", "b", "c", "d", "e", "f", "g", "h", "i", "j", "k", "l", "m",
     "n", "o", "p", "q", "r", "s", "t", "u", "v", "w", "x", "y", "z"}

Digits == {"0", "1", "2", "3", "4", "5", "6", "7", "8", "9"}

UpperCase ==
    [A |-> "a", B |-> "b", C |-> "c", D |-> "d", E |-> "e", F |-> "f", G |-> "g",
     H |-> "h", I |-> "i", J |-> "j", K |-> "k", L |-> "l", M |-> "m", N |-> "n",
     O |-> "o", P |-> "p", Q |-> "q", R |-> "r", S |-> "s", T |-> "t", U |-> "u",
     V |-> "v", W |-> "w", X |-> "x", Y |-> "y", Z |-> "z"]

UpperCaseLetters == DOMAIN UpperCase

LowerChar(c) == IF c \in UpperCaseLetters THEN UpperCase[c] ELSE c

\* the characters i..j of s in lower case
RECURSIVE LowerBetween(_, _, _)
LowerBetween(s, i, j) ==
    IF i > j THEN ""
    ELSE IF i = j THEN LowerChar(Char(s, i))
    ELSE LET m == (i + j) \div 2
         IN LowerBetween(s, i, m) \o LowerBetween(s, m + 1, j)

\* str.lower()
Lower(s) == LowerBetween(s, 1, Len(s))

\* "p in text"
In(p, text) ==
    \E i \in 1..(Len(text) - Len(p) + 1) : SubSeq(text, i, i + Len(p) - 1) = p

\* re.search(r'\b(p)\b', text): p between two word boundaries; \w is a letter,
\* a digit or "_", and p starts and ends with a letter
IsWordChar(c) == c \in LowerCase \/ c \in Digits \/ c \in UpperCaseLetters \/ c = "_"

SearchWord(p, text) ==
    \E i \in 1..(Len(text) - Len(p) + 1) :
        /\ SubSeq(text, i, i + Len(p) - 1) = p
        /\ i = 1 \/ ~IsWordChar(Char(text, i - 1))
        /\ i + Len(p) - 1 = Len(text) \/ ~IsWordChar(Char(text, i + Len(p)))

\* what re.sub(r'[^a-z0-9\s]', ' ', text) keeps apart from white space
IsKept(c) == c \in LowerCase \/ c \in Digits

\* re.sub(r'[^a-z0-9\s]', ' ', s).split(): the maximal runs of a-z and 0-9,
\* in the order of their first characters
Split(s) ==
    LET starts == {i \in 1..Len(s) :
                      IsKept(Char(s, i)) /\ (i = 1 \/ ~IsKept(Char(s, i - 1)))}
        End(i) == Min({j \in i..Len(s) : j = Len(s) \/ ~IsKept(Char(s, j + 1))})
        Nth(k) == CHOOSE i \in starts : Cardinality({j \in starts : j < i}) = k - 1
    IN [k \in 1..Cardinality(starts) |-> SubSeq(s, Nth(k), End(Nth(k)))]

preprocess_text(text) == Split(Lower(text))

\* pattern.split()[0]: a pattern is lower-case words with single blanks
FirstWord(pattern) == Split(pattern)[1]

\* words.index(w) if w in words else -1, counting from 1
Index(words, w) ==
    IF \E i \in 1..Len(words) : words[i] = w
    THEN Min({i \in 1..Len(words) : words[i] = w})
    ELSE None

(* ------------------------------ the scorer ----------------------------- *)

\* detect_negation's default window
window == 3

Max(S) == CHOOSE x \in S : \A y \in S : x >= y

\* detect_negation(words, position): one of the window words before position
\* is a negation
detect_negation(words, position) ==
    \E i \in Max({1, position - window})..(position - 1) : words[i] \in negations

\* a critical or high pattern is counted: it is in the text, and the first
\* place of its first word among the words is not negated (or its first word
\* is no word of the text)
Counted(pattern, text, words) ==
    /\ In(pattern, text)
    /\ LET position == Index(words, FirstWord(pattern))
       IN position = None \/ ~detect_negation(words, position)

\* f"{tier}:{pattern}"
Tagged(tier, patterns) == [i \in 1..Len(patterns) |-> tier \o ":" \o patterns[i]]

\* calculate_pattern_score(text, words)
calculate_pattern_score(text, words) ==
    LET critical == SelectSeq(critical_patterns, LAMBDA p : Counted(p, text, words))
        high == SelectSeq(high_patterns, LAMBDA p : Counted(p, text, words))
        medium == SelectSeq(medium_patterns, LAMBDA p : In(p, text))
    IN [score |-> 10 * Len(critical) + 6 * Len(high) + 3 * Len(medium),
        matched |-> Tagged("CRITICAL", critical) \o Tagged("HIGH", high)
                      \o Tagged("MEDIUM", medium),
        severity |-> IF Len(critical) > 0 THEN "CRITICAL"
                     ELSE IF Len(high) > 0 THEN "HIGH"
                     ELSE IF Len(medium) > 0 THEN "MEDIUM"
                     ELSE "ROUTINE"]

\* a weight in tenths the way Python writes the float: 25 is "2.5"
Float1(w) == ToString(w \div 10) \o "." \o ToString(w % 10)

RECURSIVE Product(_, _)
Product(ms, i) == IF i > Len(ms) THEN 1 ELSE ms[i][2] * Product(ms, i + 1)

\* apply_modifiers(text, base_score): the score is num / den
apply_modifiers(text, base_score) ==
    LET up == SelectSeq(intensifiers, LAMBDA m : In(m[1], text))
        down == SelectSeq(diminishers, LAMBDA m : In(m[1], text))
    IN [num |-> base_score * Product(up, 1) * Product(down, 1),
        den |-> 10 ^ (Len(up) + Len(down)),
        modifiers_applied |->
            [i \in 1..Len(up) |->
                "Intensifier: " \o up[i][1] \o " (x" \o Float1(up[i][2]) \o ")"]
              \o [i \in 1..Len(down) |->
                    "Diminisher: " \o down[i][1] \o " (x" \o Float1(down[i][2]) \o ")"]]

\* the loop keeping the last weight it finds, whatever was found before
RECURSIVE LastFound(_, _, _, _)
LastFound(weights, text, i, best) ==
    IF i > Len(weights) THEN best
    ELSE LastFound(weights, text, i + 1,
                   IF In(weights[i][1], text)
                   THEN [weight |-> weights[i][2], found |-> weights[i][1]]
                   ELSE best)

\* the loop of calculate_system_impact and calculate_scope_impact, from entry i on
RECURSIVE Heaviest(_, _, _, _)
Heaviest(weights, text, i, best) ==
    IF i > Len(weights) THEN best
    ELSE Heaviest(weights, text, i + 1,
                  IF In(weights[i][1], text) /\ weights[i][2] > best.weight
                  THEN [weight |-> weights[i][2], found |-> weights[i][1]]
                  ELSE best)

\* the loop multiplying the weights it finds
RECURSIVE Cumulative(_, _, _, _)
Cumulative(weights, text, i, best) ==
    IF i > Len(weights) THEN best
    ELSE Cumulative(weights, text, i + 1,
                    IF In(weights[i][1], text)
                    THEN [weight |-> (best.weight * weights[i][2]) \div 10,
                          found |-> weights[i][1]]
                    ELSE best)

\* a system impact that multiplies what it finds
calculate_system_impact_cumulative(text) ==
    Cumulative(system_weights, text, 1, [weight |-> 10, found |-> "general"])

\* calculate_system_impact(text)
calculate_system_impact(text) ==
    Heaviest(system_weights, text, 1, [weight |-> 10, found |-> "general"])

\* calculate_scope_impact(text)
calculate_scope_impact(text) ==
    Heaviest(scope_weights, text, 1, [weight |-> 10, found |-> "single user"])

RECURSIVE Sum(_, _)
Sum(us, i) == IF i > Len(us) THEN 0 ELSE us[i].score + Sum(us, i + 1)

\* detect_urgency(text); re.IGNORECASE
detect_urgency(text) ==
    LET lowered == Lower(text)
        found == SelectSeq(urgency_patterns,
                           LAMBDA u : \E a \in u.alts : SearchWord(a, lowered))
    IN [urgency_score |-> Sum(found, 1),
        urgency_terms |-> [i \in 1..Len(found) |-> found[i].term]]

\* m.split(':')[0]
RECURSIVE BeforeColon(_, _)
BeforeColon(m, i) ==
    IF i > Len(m) \/ Char(m, i) = ":" THEN SubSeq(m, 1, i - 1) ELSE BeforeColon(m, i + 1)

\* dict.get(key, default)
Get(d, key, default) == IF key \in DOMAIN d THEN d[key] ELSE default

\* datetime.now().isoformat() at now seconds after 1970-01-01T00:00:00, the
\* fraction of the second left out
IsoFormat(t) ==
    LET Two(n) == IF n < 10 THEN "0" \o ToString(n) ELSE ToString(n)
    IN "1970-01-01T" \o Two(t \div 3600) \o ":" \o Two((t % 3600) \div 60)
          \o ":" \o Two(t % 60)

\* round(num / den, 2) in hundredths, for a score in hundredths over den
Round2(num, den) ==
    LET q == num \div den
        r == num % den
    IN IF 2 * r > den \/ (2 * r = den /\ q % 2 = 1) THEN q + 1 ELSE q

\* the priority level with each threshold compared by > instead of >=
LevelAbove(num, den, matched_patterns) ==
    IF num > 40 * den
          \/ \E i \in 1..Len(matched_patterns) :
                BeforeColon(matched_patterns[i], 1) = "CRITICAL"
    THEN [priority |-> "CRITICAL", sla |-> "15 minutes",
          priority_description |-> "P0 - Critical: Immediate Response Required"]
    ELSE IF num > 25 * den
    THEN [priority |-> "HIGH", sla |-> "1 hour",
          priority_description |-> "P1 - High: Respond within 1 hour"]
    ELSE IF num > 12 * den
    THEN [priority |-> "MEDIUM", sla |-> "4 hours",
          priority_description |-> "P2 - Medium: Respond within 4 hours"]
    ELSE IF num > 5 * den
    THEN [priority |-> "LOW", sla |-> "24 hours",
          priority_description |-> "P3 - Low: Respond within 24 hours"]
    ELSE [priority |-> "ROUTINE", sla |-> "48-72 hours",
          priority_description |-> "P4 - Routine: Scheduled maintenance"]

\* analyze: "Determine priority level", for the final score num / den
Level(num, den, matched_patterns) ==
    IF num >= 40 * den
          \/ \E i \in 1..Len(matched_patterns) :
                BeforeColon(matched_patterns[i], 1) = "CRITICAL"
    THEN [priority |-> "CRITICAL", sla |-> "15 minutes",
          priority_description |-> "P0 - Critical: Immediate Response Required"]
    ELSE IF num >= 25 * den
    THEN [priority |-> "HIGH", sla |-> "1 hour",
          priority_description |-> "P1 - High: Respond within 1 hour"]
    ELSE IF num >= 12 * den
    THEN [priority |-> "MEDIUM", sla |-> "4 hours",
          priority_description |-> "P2 - Medium: Respond within 4 hours"]
    ELSE IF num >= 5 * den
    THEN [priority |-> "LOW", sla |-> "24 hours",
          priority_description |-> "P3 - Low: Respond within 24 hours"]
    ELSE [priority |-> "ROUTINE", sla |-> "48-72 hours",
          priority_description |-> "P4 - Routine: Scheduled maintenance"]

\* a confidence that calls one match "high"
ConfidenceEager(n) == IF n >= 1 THEN "high" ELSE IF n = 0 THEN "medium" ELSE "low"

\* 'high' if len(matched_patterns) >= 2 else 'medium' if ... == 1 else 'low'
Confidence(n) == IF n >= 2 THEN "high" ELSE IF n = 1 THEN "medium" ELSE "low"

\* analyze(request_data), called when the clock shows t. Numbers of the
\* result: priority_score and base_score in hundredths, the multipliers and
\* urgency_bonus in tenths; final is the score before rounding, as a fraction
analyze(request_data, t) ==
    IF request_data = NoRequest \/ "description" \notin DOMAIN request_data
    THEN [success |-> FALSE, error |-> "Missing required field: description"]
    ELSE
    LET description == request_data["description"]
        system == Get(request_data, "system", "")
        combined_text == Lower(description \o " " \o system)
        words == preprocess_text(combined_text)
        pattern == calculate_pattern_score(combined_text, words)
        modified == apply_modifiers(combined_text, pattern.score)
        sys == calculate_system_impact(combined_text)
        scope == calculate_scope_impact(combined_text)
        urgency == detect_urgency(combined_text)
        den == modified.den * 100
        num == modified.num * sys.weight * scope.weight
                  + urgency.urgency_score * modified.den * 10
        level == Level(num, den, pattern.matched)
    IN [success |-> TRUE,
        request_id |-> Get(request_data, "request_id", None),
        priority |-> level.priority,
        priority_score |-> Round2(num, modified.den),
        priority_description |-> level.priority_description,
        sla |-> level.sla,
        analysis |->
            [matched_patterns |-> SubSeq(pattern.matched, 1, Min({10, Len(pattern.matched)})),
             modifiers_applied |-> modified.modifiers_applied,
             system_found |-> sys.found,
             system_multiplier |-> sys.weight,
             scope_found |-> scope.found,
             scope_multiplier |-> scope.weight,
             urgency_bonus |-> urgency.urgency_score,
             urgency_terms |-> urgency.urgency_terms,
             base_score |-> pattern.score * 100,
             confidence |-> Confidence(Len(pattern.matched))],
        request_details |->
            [description |-> request_data["description"],
             system |-> Get(request_data, "system", ""),
             requester |-> Get(request_data, "requester", ""),
             timestamp |-> Get(request_data, "timestamp", IsoFormat(t))],
        final |-> [num |-> num, den |-> den]]

(* --------------------------- scorer requests --------------------------- *)

\* the longest description, in words of the vocabulary
MaxWords == 3

\* the calls of analyze made with one request
MaxCalls == 2

Vocabulary ==
    {"down", "error", "install", "NOT", "extreme", "occasionally",
     "server", "everyone", "today", "asap", "please"}

\* the texts of at most n words of V, single blanks between the words
RECURSIVE Texts(_, _)
Texts(V, n) ==
    IF n = 0 THEN {""}
    ELSE LET shorter == Texts(V, n - 1)
         IN shorter \cup {IF p = "" THEN w ELSE p \o " " \o w : p \in shorter, w \in V}

Systems == {"Production Server"}

\* a caller that fills in every optional field
Detailed(description) ==
    [description |-> description, system |-> "Production Server",
     requester |-> "IT Admin", request_id |-> "REQ-1",
     timestamp |-> "2024-01-01T09:00:00"]

\* the requests of the module's own run
test_cases ==
    <<[description |-> "Production server is completely down and all users cannot access the system",
       system |-> "Production Server", requester |-> "IT Admin"],
      [description |-> "Water leaking from ceiling in server room - urgent!",
       system |-> "Building Infrastructure", requester |-> "Facilities"],
      [description |-> "Email is very slow for the entire department",
       system |-> "Email Server", requester |-> "Manager"],
      [description |-> "Need to install new software on my laptop",
       system |-> "Workstation", requester |-> "Employee"],
      [description |-> "Minor glitch in application, happens occasionally",
       system |-> "Application", requester |-> "User"]>>

Requests ==
    [description : Texts(Vocabulary, MaxWords)]
      \cup [description : Texts(Vocabulary, MaxWords), system : Systems]
      \cup {Detailed(d) : d \in Texts(Vocabulary, 1)}
      \cup {test_cases[i] : i \in 1..Len(test_cases)}
      \cup {[description |-> test_cases[i].description] : i \in 1..Len(test_cases)}
      \cup {NoRequest, [system |-> "Production Server"],
            [system |-> "Production Server", requester |-> "IT Admin"]}

InitScorer ==
    /\ InitCalls
    /\ client = HTTPClient(None, None)
    /\ request \in Requests
    /\ results = <<>>
    /\ requests = <<>>
    /\ batch = NoBatch

\* result = analyze(request)
Analyze ==
    /\ Len(results) < MaxCalls
    /\ results' = Append(results, analyze(request, now))
    /\ UNCHANGED <<now, circuit_breakers, breakers, pc, local, consec, lastUrl,
                   client, request, requests, batch>>

\* the same request analysed again, at once or after the clock has moved on
NextScorer ==
    \/ Analyze
    \/ \E d \in CoarseTickSteps : Len(results) = 1 /\ Tick(d)

SpecScorer == InitScorer /\ [][NextScorer]_vars

\* longer descriptions of fewer words: a keyword said twice, a negation
\* further than the window away
MaxNegationWords == 5

NegationVocabulary == {"system", "is", "NOT", "down", "install"}

NegationRequests == [description : Texts(NegationVocabulary, MaxNegationWords)]

InitNegation ==
    /\ InitCalls
    /\ client = HTTPClient(None, None)
    /\ request \in NegationRequests
    /\ results = <<>>
    /\ requests = <<>>
    /\ batch = NoBatch

SpecNegation == InitNegation /\ [][NextScorer]_vars

(* ------------------------------ the batch ------------------------------ *)

\* d[key] = value
Put(d, key, value) ==
    [k \in DOMAIN d \cup {key} |-> IF k = key THEN value ELSE d[k]]

\* req['request_id'] = req.get('request_id', f'REQ-{idx+1}'), idx + 1 = i
WithId(req, i) == Put(req, "request_id", Get(req, "request_id", "REQ-" \o ToString(i)))

\* key=lambda x: x.get('priority_score', 0)
SortKey(x) == Get(x, "priority_score", 0)

\* x put into a list in non-increasing order, behind its equals
RECURSIVE InsertBehind(_, _)
InsertBehind(x, sorted) ==
    IF sorted = <<>> \/ SortKey(x) > SortKey(Head(sorted)) THEN <<x>> \o sorted
    ELSE <<Head(sorted)>> \o InsertBehind(x, Tail(sorted))

\* a sort that puts the lowest score first
RECURSIVE SortAscending(_)
SortAscending(rs) ==
    IF rs = <<>> THEN <<>>
    ELSE LET rest == SortAscending(SubSeq(rs, 1, Len(rs) - 1))
             x == rs[Len(rs)]
             before == SelectSeq(rest, LAMBDA r : SortKey(r) <= SortKey(x))
             after == SelectSeq(rest, LAMBDA r : SortKey(r) > SortKey(x))
         IN before \o <<x>> \o after

\* results.sort(key=..., reverse=True): equal keys keep their order
RECURSIVE Sort(_)
Sort(rs) ==
    IF rs = <<>> THEN <<>>
    ELSE InsertBehind(rs[Len(rs)], Sort(SubSeq(rs, 1, Len(rs) - 1)))

Priorities == {"CRITICAL", "HIGH", "MEDIUM", "LOW", "ROUTINE"}

\* process_batch_requests(requests), called when the clock shows t
process_batch_requests(reqs, t) ==
    LET analysed == [i \in 1..Len(reqs) |-> analyze(WithId(reqs[i], i), t)]
        priority_counts ==
            [p \in Priorities |->
                Cardinality({i \in 1..Len(reqs) :
                                analysed[i].success /\ analysed[i].priority = p})]
    IN [success |-> TRUE,
        total_requests |-> Len(reqs),
        requests |-> Sort(analysed),
        priority_summary |-> priority_counts]

\* the longest list handed to process_batch_requests
MaxBatch == 3

BatchRequests ==
    {test_cases[1], test_cases[4], test_cases[5],
     [description |-> "down minor small slight"], [description |-> "stuck"],
     [description |-> "please"], [description |-> "error server"],
     [description |-> "error everyone", system |-> "Production Server"],
     Detailed("install"), NoRequest, [system |-> "Production Server"]}

RECURSIVE Lists(_, _)
Lists(S, n) ==
    IF n = 0 THEN {<<>>}
    ELSE LET shorter == Lists(S, n - 1)
         IN shorter \cup {Append(l, x) : l \in shorter, x \in S}

InitBatch ==
    /\ InitCalls
    /\ client = HTTPClient(None, None)
    /\ request = NoRequest
    /\ results = <<>>
    /\ requests \in Lists(BatchRequests, MaxBatch)
    /\ batch = NoBatch

\* batch = process_batch_requests(requests); the items of the list are
\* different objects, and each gets its request_id written into it
ProcessBatch ==
    /\ batch = NoBatch
    /\ batch' = process_batch_requests(requests, now)
    /\ requests' = [i \in 1..Len(requests) |-> WithId(requests[i], i)]
    /\ UNCHANGED <<now, circuit_breakers, breakers, pc, local, consec, lastUrl,
                   client, request, results>>

NextBatch == ProcessBatch

SpecBatch == InitBatch /\ [][NextBatch]_vars

(* ------------------------------ properties ----------------------------- *)

UrlOf(h) == CHOOSE u \in AllUrls : Host(u) = h

\* the registry entry a call to host h looks up, and the breaker behind it
BreakerId(h) == circuit_breakers[HostKey(UrlOf(h))]

BreakerIdNext(h) == circuit_breakers'[HostKey(UrlOf(h))]

HasBreaker(h) == BreakerId(h) # 0

BreakerOf(h) == breakers[BreakerId(h)]

\* no logical call is under way
Settled == \A t \in Threads : pc[t] \in {"idle", "done"}

\* thread t takes the step
Moved(t) == pc'[t] # pc[t] \/ local'[t] # local[t]

\* the call ended with the circuit-open error and never touched the network
Rejected(l) == l.result.kind = "raised" /\ l.result.exc = "CircuitOpen" /\ l.nAttempts = 0

C1_Open ==
    \A h \in Hosts :
        (consec[h] >= failure_threshold /\ Settled)
            => (HasBreaker(h) /\ BreakerOf(h).state = "open")

C1_Reject ==
    \A t \in Threads :
        (/\ pc[t] = "call"
         /\ Moved(t)
         /\ consec[Host(local[t].url)] >= failure_threshold
         /\ now - BreakerOf(Host(local[t].url)).last_failure_time <= timeout)
            => (pc'[t] = "done" /\ Rejected(local'[t]))

\* C1: once failure_threshold calls to a host have failed in a row, with no
\* success between them, the host's breaker is open as soon as the last of
\* them has ended, and a call that arrives while no more than timeout seconds
\* have passed since the last failure ends with the circuit-open error
\* without a network attempt.
C1_OpensAfterThresholdAndRejects == [](C1_Open) /\ [][C1_Reject]_vars

C1_Witness ==
    \E t \in Threads :
        /\ pc[t] = "done"
        /\ Rejected(local[t])
        /\ consec[Host(local[t].url)] = failure_threshold

C2_Admit ==
    \A t \in Threads :
        (pc[t] = "call" /\ Moved(t) /\ breakers[local[t].cb].state = "open")
            => IF now - breakers[local[t].cb].last_failure_time > timeout
               THEN pc'[t] = "set_half" /\ local'[t].trial
               ELSE pc'[t] = "done" /\ Rejected(local'[t])

C2_TrialIsHalfOpen ==
    \A t \in Threads :
        (local[t].trial /\ pc[t] \in {"attempt", "sleep"})
            => breakers[local[t].cb].state = "half_open"

C2_FailedTrialReopens ==
    \A t \in Threads :
        (pc[t] = "done" /\ local[t].trial /\ local[t].result.kind = "raised")
            => /\ breakers[local[t].cb].state = "open"
               /\ now - breakers[local[t].cb].last_failure_time <= timeout

C2_TrialOver ==
    Settled => \A b \in 1..Len(breakers) : breakers[b].state # "half_open"

\* C2: with calls one after the other, a call that finds the breaker open is
\* let through, as the half-open trial, exactly when more than timeout
\* seconds have passed since last_failure_time, and is rejected otherwise;
\* the trial is over when its call is, and after a failed trial the breaker
\* is open with a fresh last_failure_time, so that the calls that follow are
\* rejected until a further timeout has passed.
C2_OneTrialAfterTimeout ==
    [](C2_TrialIsHalfOpen /\ C2_FailedTrialReopens /\ C2_TrialOver) /\ [][C2_Admit]_vars

C2_Witness ==
    \E t \in Threads :
        /\ pc[t] = "done"
        /\ Rejected(local[t])
        /\ breakers[local[t].cb].failure_count > failure_threshold

\* C3: when the call made in the half-open state has ended, a success has
\* left failure_count 0 and the state closed, a failure has left the state
\* open and last_failure_time at the time of that failure, and the state is
\* not half_open in either case.
C3_TrialOutcome ==
    \A t \in Threads :
        (pc[t] = "done" /\ local[t].trial)
            => LET b == breakers[local[t].cb] IN
               /\ b.state # "half_open"
               /\ local[t].result.kind = "response"
                    => (b.failure_count = 0 /\ b.state = "closed")
               /\ local[t].result.kind = "raised"
                    => (b.state = "open" /\ b.last_failure_time = now)

C3_Witness ==
    \E t \in Threads :
        /\ pc[t] = "done"
        /\ local[t].trial
        /\ local[t].result.kind = "raised"
        /\ local[t].nAttempts = max_retries
        /\ Len(local[t].sleeps) > 0

\* C4: a logical request whose every attempt was answered 503 has made
\* exactly max_retries attempts, has slept backoff_factor * 2^i after attempt
\* i for i = 0 .. max_retries - 2 and not after the last one, and ends with
\* the 503's error.
C4_RetryBound ==
    \A t \in Threads :
        (pc[t] = "done" /\ local[t].nAttempts > 0 /\ local[t].all503)
            => /\ local[t].nAttempts = max_retries
               /\ local[t].sleeps = [i \in 1..(max_retries - 1) |-> backoff_factor * 2 ^ (i - 1)]
               /\ local[t].result = Raised("HTTPError", 503)

C4_Witness ==
    \E t \in Threads :
        /\ pc[t] = "done"
        /\ local[t].all503
        /\ local[t].nAttempts = max_retries
        /\ local[t].result.kind = "raised"

\* C5: a logical request whose last attempt was answered 4xx hands its caller
\* an error, not a response.
C5_ClientErrorRaised ==
    \A t \in Threads :
        (/\ pc[t] = "done"
         /\ local[t].kind \in ClientKinds
         /\ local[t].result.status >= 400
         /\ local[t].result.status < 500)
            => local[t].returned.kind = "raised"

C6_OneReport ==
    \A t \in Threads :
        /\ local[t].nSuccess + local[t].nFailure <= 1
        /\ pc[t] = "done"
            => IF local[t].nAttempts = 0
               THEN local[t].nSuccess + local[t].nFailure = 0
               ELSE /\ local[t].nSuccess + local[t].nFailure = 1
                    /\ local[t].nFailure = 1 <=> local[t].result.kind = "raised"
                    /\ local[t].nSuccess = 1
                         <=> (local[t].result.kind = "response" /\ local[t].result.status < 500)

C6_ReportSteps ==
    \A t \in Threads :
        /\ (pc[t] \in {"attempt", "sleep"} /\ Moved(t)) => breakers' = breakers
        /\ (pc[t] = "on_failure_write" /\ Moved(t))
             => breakers'[local[t].cb].failure_count
                  = breakers[local[t].cb].failure_count + 1

\* C6: a logical request that passed the circuit check reports to its breaker
\* exactly once, a failure (failure_count one higher) if it ended in an
\* error, a success if an attempt, the first or a later one, was answered
\* below 500; the attempts and the sleeps between them leave the breaker alone.
C6_OneReportPerCall == [](C6_OneReport) /\ [][C6_ReportSteps]_vars

C6_Witness ==
    \E t \in Threads :
        /\ pc[t] = "done"
        /\ local[t].nAttempts = max_retries
        /\ local[t].result.kind = "response"
        /\ local[t].nSuccess = 1

\* C7: with the calls of several threads under way on one breaker, its
\* failure_count is the number of failure reports made since the last success
\* report, and the breaker is open once that number has reached
\* failure_threshold and the calls have ended.
C7_NoReportLost ==
    \A h \in Hosts :
        (Len(breakers) = 1 /\ HasBreaker(h))
            => /\ BreakerOf(h).failure_count = consec[h]
               /\ (consec[h] >= failure_threshold /\ Settled) => BreakerOf(h).state = "open"

\* C8: a call uses the breaker that every URL of the same scheme and host
\* uses, whatever the path, and that breaker's failure_count counts the
\* failure reports of the calls to all of them.
C8_BreakerPerHost ==
    /\ \A t \in Threads :
           local[t].cb # 0
             => \A u \in AllUrls :
                    (Scheme(u) = Scheme(local[t].url) /\ Host(u) = Host(local[t].url))
                        => circuit_breakers[HostKey(u)] = local[t].cb
    /\ \A h \in Hosts : HasBreaker(h) => BreakerOf(h).failure_count = consec[h]

C8_Witness ==
    \E t \in Threads :
        /\ pc[t] = "done"
        /\ local[t].url = AdminUrl
        /\ Rejected(local[t])
        /\ lastUrl[Host(AdminUrl)] = NotificationsUrl

\* the URL of the call thread t is making in this step
CallUrl(t) == IF pc[t] = "idle" THEN local'[t].url ELSE local[t].url

C9_Frame ==
    \A t \in Threads :
        Moved(t)
          => \A h \in Hosts \ {Host(CallUrl(t))} :
                 /\ BreakerIdNext(h) = BreakerId(h)
                 /\ HasBreaker(h) => breakers'[BreakerId(h)] = breakers[BreakerId(h)]

C9_Pass ==
    \A t \in Threads :
        (pc[t] = "call" /\ Moved(t) /\ BreakerOf(Host(local[t].url)).state # "open")
            => pc'[t] = "attempt"

\* C9: a step of a call to one host leaves the registry entry and the breaker
\* of every other host as they were, and a call is let through whenever its
\* own host's breaker is not open, whatever the other breakers' states.
C9_OtherHostsUntouched == [][C9_Frame /\ C9_Pass]_vars

C9_Witness ==
    \E t \in Threads :
        /\ pc[t] = "on_success_state"
        /\ Host(local[t].url) = Host(BookingUrl)
        /\ HasBreaker(Host(NotificationsUrl))
        /\ BreakerOf(Host(NotificationsUrl)).state = "open"

\* C10: send_notification and notify_admins always end by returning a
\* boolean, False when the call ended in an error of any kind (retries
\* exhausted, circuit open, another exception) or in a 4xx answer, and True
\* only after an answer below 300.
C10_NeverRaises ==
    \A t \in Threads :
        (pc[t] = "done" /\ local[t].kind \in {"send_notification", "notify_admins"})
            => /\ local[t].returned.kind = "returned"
               /\ local[t].result.kind = "raised" => ~local[t].returned.value
               /\ local[t].result.status >= 400 => ~local[t].returned.value
               /\ local[t].returned.value
                    => (local[t].result.kind = "response" /\ local[t].result.status < 300)

C10_Witness ==
    \E t \in Threads :
        /\ pc[t] = "done"
        /\ local[t].kind = "notify_admins"
        /\ local[t].result.exc = "CircuitOpen"
        /\ local[t].returned.kind = "returned"
        /\ ~local[t].returned.value

(* ------------------------- construction (C11) -------------------------- *)

\* C11: a client constructed with max_retries = 0 does not come into being
\* (the constructor fails), and every logical call that is not turned away
\* by an open breaker makes at least one network attempt.
C11_ZeroRetriesRejected ==
    /\ client.constructed => client.arg # 0
    /\ \A t \in Threads :
           (pc[t] = "done" /\ ~Rejected(local[t])) => local[t].nAttempts >= 1

(* ----------------------- breaker transitions (C12) --------------------- *)

\* thread t makes its success report (on_success) on breaker b in this step
SuccessReport(t, b) == pc[t] = "on_success_count" /\ Moved(t) /\ local[t].cb = b

\* thread t makes its failure report (on_failure) on breaker b in this step
FailureReport(t, b) == pc[t] = "on_failure_write" /\ Moved(t) /\ local[t].cb = b

Transitions ==
    {<<"closed", "open">>, <<"open", "half_open">>,
     <<"half_open", "closed">>, <<"half_open", "open">>}

C12_Step ==
    \A b \in 1..Len(breakers) :
        LET old == breakers[b]
            new == breakers'[b]
        IN /\ (new.failure_count = 0 /\ old.failure_count # 0)
                  => \/ \E t \in Threads : SuccessReport(t, b)
                     \/ old.state = "open" /\ new.state = "half_open"
           /\ (\E t \in Threads : FailureReport(t, b))
                  => new.failure_count = old.failure_count + 1
           /\ (\A t \in Threads : ~SuccessReport(t, b) /\ ~FailureReport(t, b))
                  => \/ new.failure_count = old.failure_count
                     \/ (new.failure_count = 0
                           /\ old.state = "open" /\ new.state = "half_open")
           /\ (\E t \in Threads : pc[t] = "call" /\ pc'[t] = "done" /\ local[t].cb = b)
                  => new = old
           /\ new.state # old.state => <<old.state, new.state>> \in Transitions

\* C12: with the calls made one after the other, a step sets a breaker's
\* failure_count to 0 only if it is a success report or the step from open to
\* half_open; a failure report adds exactly 1 to it; every other step, the
\* rejection of a call among them, leaves it as it is; and the state changes
\* only from closed to open, from open to half_open, from half_open to closed
\* and from half_open to open.
C12_CountAndStateSteps == [][C12_Step]_vars

\* a failed trial: every transition but half_open -> closed has been taken,
\* and the count went on from the threshold
C12_Witness ==
    \E t \in Threads :
        /\ pc[t] = "done"
        /\ local[t].trial
        /\ local[t].nFailure = 1
        /\ breakers[local[t].cb].state = "open"
        /\ breakers[local[t].cb].failure_count = failure_threshold + 1

(* --------------------------- negation (C13, C14) ----------------------- *)

\* the words of the text analyze works on
RequestWords ==
    IF request = NoRequest \/ "description" \notin DOMAIN request THEN <<>>
    ELSE preprocess_text(request["description"] \o " " \o Get(request, "system", ""))

\* the words of phrase p stand at place i of the words
PhraseAt(words, i, p) ==
    /\ words[i] = FirstWord(p)
    /\ LET pw == preprocess_text(p)
       IN /\ i + Len(pw) - 1 <= Len(words)
          /\ \A j \in 1..Len(pw) : words[i + j - 1] = pw[j]

\* one of the three words before place i is a negation
NegatedAt(words, i) ==
    \E j \in 1..(i - 1) : i - j <= 3 /\ words[j] \in negations

Range(seq) == {seq[i] : i \in 1..Len(seq)}

\* C13: a request whose text has a CRITICAL-tier phrase at some place with no
\* negation among the three words before that place is given the priority
\* CRITICAL, whatever its score, and whatever else the text holds (other,
\* negated places of the same phrase among it).
C13_UnnegatedCriticalIsCritical ==
    results # <<>> =>
        LET words == RequestWords
        IN (\E p \in Range(critical_patterns), i \in 1..Len(words) :
                PhraseAt(words, i, p) /\ ~NegatedAt(words, i))
              => \A k \in 1..Len(results) :
                    results[k].success /\ results[k].priority = "CRITICAL"

\* phrase p stands somewhere among the words, and at each of its places one of
\* the three words before it is a negation
AllNegated(words, p) ==
    /\ \E i \in 1..Len(words) : PhraseAt(words, i, p)
    /\ \A i \in 1..Len(words) : PhraseAt(words, i, p) => NegatedAt(words, i)

\* phrase p of the given tier is among the patterns the result reports
Reported(result, tier, p) ==
    \E i \in 1..Len(result.analysis.matched_patterns) :
        result.analysis.matched_patterns[i] = tier \o ":" \o p

\* C14: a keyword of the CRITICAL, HIGH or MEDIUM tier that stands in the
\* text only with a negation among the three words before it is not reported
\* among the matched patterns (so it adds nothing to the pattern score), and
\* when every CRITICAL keyword of the text is negated in this way and the
\* score is below 40, the priority is not CRITICAL.
C14_NegatedMatchDiscarded ==
    results # <<>> =>
        LET words == RequestWords
        IN \A k \in 1..Len(results) :
              results[k].success =>
                /\ \A p \in Range(critical_patterns) :
                      AllNegated(words, p) => ~Reported(results[k], "CRITICAL", p)
                /\ \A p \in Range(high_patterns) :
                      AllNegated(words, p) => ~Reported(results[k], "HIGH", p)
                /\ \A p \in Range(medium_patterns) :
                      AllNegated(words, p) => ~Reported(results[k], "MEDIUM", p)
                /\ ((\A p \in Range(critical_patterns) :
                        (\E i \in 1..Len(words) : PhraseAt(words, i, p))
                            => AllNegated(words, p))
                     /\ results[k].final.num < 40 * results[k].final.den)
                       => results[k].priority # "CRITICAL"

(* ------------------------------ purity (C15) --------------------------- *)

\* C15: two calls of analyze with the same request, one that supplies no
\* timestamp, return results that are equal in every field.
C15_SameRequestSameResult ==
    (request # NoRequest /\ "timestamp" \notin DOMAIN request)
        => \A j, k \in 1..Len(results) : results[j] = results[k]

(* --------------------------- monotonicity (C16) ------------------------ *)

\* the request with word w added at the end of its description
WithWord(r, w) ==
    [r EXCEPT !["description"] = IF @ = "" THEN w ELSE @ \o " " \o w]

\* a / b <= c / d for two scores whose denominators are powers of ten
ScoreLeq(x, y) ==
    IF x.den >= y.den THEN x.num <= y.num * (x.den \div y.den)
    ELSE x.num * (y.den \div x.den) <= y.num

\* C16: for a request that has been analysed, the final score of the same
\* request with an intensifier word added to its description is not below
\* its final score, and with a diminisher word added it is not above it.
C16_ModifiersMonotone ==
    (results # <<>> /\ results[1].success) =>
        /\ \A i \in 1..Len(intensifiers) :
              ScoreLeq(results[1].final,
                       analyze(WithWord(request, intensifiers[i][1]), now).final)
        /\ \A i \in 1..Len(diminishers) :
              ScoreLeq(analyze(WithWord(request, diminishers[i][1]), now).final,
                       results[1].final)

(* ---------------------------- multipliers (C17) ------------------------ *)

\* the text analyze works on
RequestText ==
    IF request = NoRequest \/ "description" \notin DOMAIN request THEN ""
    ELSE Lower(request["description"] \o " " \o Get(request, "system", ""))

\* the weights of the labels of a table that are found in the text
WeightsFound(weights, text) ==
    {weights[i][2] : i \in {j \in 1..Len(weights) : In(weights[j][1], text)}}

\* C17: the system multiplier of a result is the greatest weight among the
\* system labels found in the text (not their product, not their sum), and
\* 1.0 with the label "general" when none is found; the scope multiplier is
\* the greatest weight among the scope labels found, and 1.0 with the label
\* "single user" when none is found.
C17_HeaviestLabel ==
    results # <<>> =>
        LET sys == WeightsFound(system_weights, RequestText)
            scope == WeightsFound(scope_weights, RequestText)
        IN \A k \in 1..Len(results) :
              results[k].success =>
                /\ IF sys = {}
                   THEN /\ results[k].analysis.system_multiplier = 10
                        /\ results[k].analysis.system_found = "general"
                   ELSE results[k].analysis.system_multiplier = Max(sys)
                /\ IF scope = {}
                   THEN /\ results[k].analysis.scope_multiplier = 10
                        /\ results[k].analysis.scope_found = "single user"
                   ELSE results[k].analysis.scope_multiplier = Max(scope)

\* "server" (2.0) and "production" (2.5) in one text: the multiplier is 2.5
C17_Witness ==
    /\ results # <<>>
    /\ results[1].success
    /\ In("server", RequestText)
    /\ In("production", RequestText)
    /\ In("everyone", RequestText)
    /\ results[1].analysis.system_multiplier = 25
    /\ results[1].analysis.scope_multiplier = 30

(* ------------------------------- bands (C18) --------------------------- *)

\* the weights of the modifiers (intensifiers, then diminishers) found in the text
ModifiersFound(text) ==
    SelectSeq(intensifiers \o diminishers, LAMBDA m : In(m[1], text))

\* the band and the SLA for a final score of num / den
Band(num, den, critical) ==
    IF num >= 40 * den \/ critical THEN <<"CRITICAL", "15 minutes">>
    ELSE IF num >= 25 * den THEN <<"HIGH", "1 hour">>
    ELSE IF num >= 12 * den THEN <<"MEDIUM", "4 hours">>
    ELSE IF num >= 5 * den THEN <<"LOW", "24 hours">>
    ELSE <<"ROUTINE", "48-72 hours">>

C19_EmptyDescriptionRejected ==
    (\/ request = NoRequest
     \/ "description" \notin DOMAIN request
     \/ request["description"] = "")
        => \A k \in 1..Len(results) :
              ~results[k].success /\ "priority" \notin DOMAIN results[k]

(* ---------------------------- neutral text (C20) ---------------------- *)

\* the text holds no pattern of any tier, no modifier, no system label, no
\* scope phrase and no urgency phrase
Neutral(text) ==
    /\ \A p \in Range(critical_patterns) \cup Range(high_patterns)
                \cup Range(medium_patterns) : ~In(p, text)
    /\ \A m \in Range(intensifiers) \cup Range(diminishers)
                \cup Range(system_weights) \cup Range(scope_weights) : ~In(m[1], text)
    /\ \A u \in Range(urgency_patterns) : \A a \in u.alts : ~SearchWord(a, text)

\* C20: a request with a description whose text matches nothing gets a
\* successful result with score 0, priority ROUTINE and confidence "low".
C20_NeutralIsRoutine ==
    (results # <<>> /\ request # NoRequest /\ "description" \in DOMAIN request
        /\ Neutral(RequestText))
        => \A k \in 1..Len(results) :
              /\ results[k].success
              /\ results[k].priority_score = 0
              /\ results[k].priority = "ROUTINE"
              /\ results[k].analysis.confidence = "low"

\* a description of MaxWords words, "please" among them, that are in no table
C20_Witness ==
    /\ results # <<>>
    /\ request # NoRequest
    /\ "description" \in DOMAIN request
    /\ Len(RequestWords) = MaxWords
    /\ In("please", RequestText)
    /\ Neutral(RequestText)
    /\ results[1].success
    /\ results[1].priority = "ROUTINE"


(* ------------------------------------------------------------------------ *)
(* C21: process_batch_requests scores each item on its own: the bands and   *)
(* scores it returns are, item for item, those analyze gives for the item   *)
(* alone, whatever else is in the list. The results come back in            *)
(* non-increasing order of score, total_requests is the length of the list, *)
(* and the count reported for a band is the number of returned results of   *)
(* that band. A result that has no score is sorted as score 0.              *)
(* ------------------------------------------------------------------------ *)
\* the band and the score of a result, "" and None where it has none
BandOf(r) == Get(r, "priority", "")

ScoreOf(r) == Get(r, "priority_score", None)

\* the one-to-one maps of 1..n onto itself
Orders(n) == {f \in [1..n -> 1..n] : \A i, j \in 1..n : f[i] = f[j] => i = j}

C21_Step ==
    ProcessBatch =>
        LET n == Len(requests)
            alone == {<<i, analyze(requests[i], now)>> : i \in 1..n}
            out == batch'.requests
        IN /\ batch'.total_requests = n
           /\ Len(out) = n
           /\ \E f \in Orders(n) :
                 \A a \in alone : /\ BandOf(out[f[a[1]]]) = BandOf(a[2])
                                  /\ ScoreOf(out[f[a[1]]]) = ScoreOf(a[2])
           /\ \A i, j \in 1..n : i < j => SortKey(out[i]) >= SortKey(out[j])
           /\ \A p \in Priorities :
                 batch'.priority_summary[p]
                    = Cardinality({i \in 1..n : BandOf(out[i]) = p})

C21_BatchScoredSortedCounted == [][C21_Step]_vars

\* a list of three given in rising order of score, one item without a
\* description among them, has been processed
C21_Witness ==
    /\ batch # NoBatch
    /\ Len(requests) = 3
    /\ ~batch.requests[3].success
    /\ SortKey(batch.requests[1]) > SortKey(batch.requests[2])
    /\ Get(batch.requests[1], "request_id", "") = "REQ-3"
    /\ Get(batch.requests[2], "request_id", "") = "REQ-2"

(* ------------------------------------------------------------------------ *)
(* C22: in what process_batch_requests returns, a result of band CRITICAL   *)
(* stands before every result of band ROUTINE.                              *)
(* ------------------------------------------------------------------------ *)
C22_CriticalBeforeRoutine ==
    batch # NoBatch =>
        \A i, j \in 1..Len(batch.requests) :
            BandOf(batch.requests[i]) = "CRITICAL" /\ BandOf(batch.requests[j]) = "ROUTINE"
                => i < j

(* ------------------------------------------------------------------------ *)
(* C23: for the description "Production server is completely down and all   *)
(* users cannot access the system" analyze reports CRITICAL:down among the  *)
(* matched patterns, the system multiplier 2.5 of "production", the scope   *)
(* multiplier 3.0 of "all users", a score of at least 40, the band CRITICAL *)
(* and the sla "15 minutes".                                                *)
(* ------------------------------------------------------------------------ *)
ProductionDown == test_cases[1].description

C23_ProductionDownScenario ==
    (request # NoRequest /\ Get(request, "description", "") = ProductionDown) =>
        \A k \in 1..Len(results) :
            LET r == results[k]
            IN /\ r.success
               /\ "CRITICAL:down" \in Range(r.analysis.matched_patterns)
               /\ r.analysis.system_multiplier = 25
               /\ r.analysis.system_found = "production"
               /\ r.analysis.scope_multiplier = 30
               /\ r.analysis.scope_found = "all users"
               /\ r.priority_score >= 4000
               /\ r.final.num >= 40 * r.final.den
               /\ r.priority = "CRITICAL"
               /\ r.sla = "15 minutes"

\* the description alone, without a system field, has been analysed
C23_Witness ==
    /\ request = [description |-> ProductionDown]
    /\ Len(results) >= 1
    /\ results[1].priority_score = 15000

(* ------------------------------------------------------------------------ *)
(* C24: a logical request that passed the circuit check stops at the first  *)
(* attempt answered with a status below 500 and returns that response       *)
(* unchanged; while the attempts are answered with a status from 500 on or  *)
(* fail with a transport exception it retries, stops after exactly          *)
(* max_retries attempts and raises the error of the last one. The attempts  *)
(* number min(index of the first response below 500, max_retries), never    *)
(* more than max_retries.                                                   *)
(* ------------------------------------------------------------------------ *)
\* the network's answer o is a response below 500
Below500(o) == o.type = "response" /\ o.status < 500

\* o is a response from 500 on or a transport exception
Retried(o) == (o.type = "response" /\ o.status >= 500) \/ o.type = "ConnectionError"

\* what requests raises for o
ErrorOf(o) ==
    IF o.type = "response" THEN Raised("HTTPError", o.status) ELSE Raised(o.type, 0)

\* the positions between the end of the retry loop and the caller
Reporting ==
    {"on_success_count", "on_success_state", "on_failure_read", "on_failure_write",
     "on_failure_time", "on_failure_check"}

C24_Attempt(t, o) ==
    Attempt(t, o) =>
        /\ local[t].nAttempts = local[t].attempt
        /\ local'[t].nAttempts = local[t].nAttempts + 1
        /\ local'[t].nAttempts <= max_retries
        /\ Below500(o) =>
              pc'[t] = "on_success_count" /\ local'[t].result = Response(o.status)
        /\ Retried(o) /\ local'[t].nAttempts < max_retries =>
              pc'[t] = "sleep" /\ local'[t].attempt = local[t].attempt
        /\ Retried(o) /\ local'[t].nAttempts = max_retries =>
              pc'[t] = "on_failure_read" /\ local'[t].result = ErrorOf(o)

C24_Step ==
    \A t \in Threads :
        /\ \A o \in NetOutcomes : C24_Attempt(t, o)
        \* attempts are made by the retry loop only, one after each sleep
        /\ local'[t].nAttempts # local[t].nAttempts /\ pc'[t] # "idle" => pc[t] = "attempt"
        /\ pc[t] = "sleep" /\ pc'[t] # "sleep" =>
              pc'[t] = "attempt" /\ local'[t].attempt = local[t].attempt + 1
        \* once the loop is left, its outcome reaches the caller unchanged
        /\ pc[t] \in Reporting =>
              /\ pc'[t] \in Reporting \cup {"done"}
              /\ local'[t].result = local[t].result
              /\ local'[t].nAttempts = local[t].nAttempts
        /\ pc'[t] = "done" /\ local'[t].kind \in ClientKinds =>
              local'[t].returned = local'[t].result

C24_Done ==
    \A t \in Threads :
        LET l == local[t]
        IN /\ client.constructed => l.nAttempts <= max_retries
           /\ pc[t] = "done" /\ l.result.kind = "response" => l.result.status < 500
           /\ pc[t] = "done" /\ l.result.exc \in {"HTTPError", "ConnectionError"} =>
                 l.nAttempts = max_retries /\ l.nAttempts >= 1

C24_WitnessRaised ==
    /\ pc["t1"] = "done"
    /\ max_retries = 2
    /\ local["t1"].nAttempts = 2
    /\ local["t1"].returned = Raised("ConnectionError", 0)

(* ------------------------------------------------------------------------ *)
(* C25: with concurrent callers, at most one call is on its way to the      *)
(* network as the trial of a half-open breaker: no second call is let       *)
(* through while the breaker is half_open and the trial has reported        *)
(* neither success nor failure.                                             *)
(* ------------------------------------------------------------------------ *)
\* thread t has passed the circuit check of breaker b and has not reported yet
InFlight(t, b) == pc[t] \in {"attempt", "sleep"} /\ local[t].cb = b

C25_OneTrialInFlight ==
    \A b \in 1..Len(breakers) :
        breakers[b].state = "half_open" =>
            Cardinality({t \in Threads : InFlight(t, b)}) <= 1

(* ------------------------------------------------------------------------ *)
(* C26: with calls one after the other, whenever no method of the breaker   *)
(* is part-way through its writes: a closed breaker has failure_count below *)
(* failure_threshold; an open or half_open breaker has failure_count at     *)
(* least failure_threshold and a last_failure_time that is set; and         *)
(* failure_count is never negative.                                         *)
(* ------------------------------------------------------------------------ *)
\* the positions inside on_success and on_failure between the write of
\* failure_count and the write of state
MidReport == {"on_success_state", "on_failure_time", "on_failure_check"}

C26_CountMatchesState ==
    \A b \in 1..Len(breakers) :
        /\ breakers[b].failure_count >= 0
        /\ (\A t \in Threads : pc[t] \notin MidReport) =>
              /\ breakers[b].state \in {"closed", "open", "half_open"}
              /\ breakers[b].state = "closed" =>
                    breakers[b].failure_count < failure_threshold
              /\ breakers[b].state \in {"open", "half_open"} =>
                    /\ breakers[b].failure_count >= failure_threshold
                    /\ breakers[b].last_failure_time # None

\* a breaker closed again by a successful trial after a failed one
C26_Witness ==
    /\ Quiet
    /\ Len(breakers) = 1
    /\ breakers[1].state = "closed"
    /\ breakers[1].failure_count = 0
    /\ breakers[1].last_failure_time > timeout

(* ------------------------------------------------------------------------ *)
(* C27: a call rejected because the breaker is open and the timeout has not *)
(* elapsed leaves failure_count, last_failure_time and state as they were.  *)
(* last_failure_time moves only when a failure is reported, so the step     *)
(* from open to half_open becomes possible timeout seconds after the last   *)
(* reported failure, however many calls were rejected in between.           *)
(* ------------------------------------------------------------------------ *)
\* the call of thread t ends in this step, rejected
RejectedNow(t) == pc[t] # "done" /\ pc'[t] = "done" /\ Rejected(local'[t])

C27_Step ==
    \A t \in Threads :
        \* the rejection writes nothing
        /\ RejectedNow(t) => pc[t] = "call" /\ breakers' = breakers
        \* none of the breakers that exist gets a new last_failure_time, except
        \* the one a failure is reported to, which gets the time of the report
        /\ Moved(t) =>
              \A b \in 1..Len(breakers) :
                  breakers'[b].last_failure_time # breakers[b].last_failure_time
                      => /\ pc[t] = "on_failure_time"
                         /\ b = local[t].cb
                         /\ breakers'[b].last_failure_time = now
        \* an open breaker lets the call through exactly when more than timeout
        \* seconds have passed since then
        /\ (pc[t] = "call" /\ Moved(t) /\ breakers[local[t].cb].state = "open") =>
              (RejectedNow(t) <=> now - breakers[local[t].cb].last_failure_time <= timeout)

\* a rejected call has made no attempt and no report
C27_NoReport ==
    \A t \in Threads :
        (pc[t] = "done" /\ Rejected(local[t])) =>
            local[t].nSuccess = 0 /\ local[t].nFailure = 0 /\ local[t].sleeps = <<>>

C27_RejectionLeavesBreaker == []C27_NoReport /\ [][C27_Step]_vars

\* a call rejected exactly timeout seconds after the last failure, the clock
\* having moved since that failure
C27_Witness ==
    \E t \in Threads :
        /\ pc[t] = "done"
        /\ Rejected(local[t])
        /\ breakers[local[t].cb].state = "open"
        /\ breakers[local[t].cb].failure_count = failure_threshold
        /\ now = breakers[local[t].cb].last_failure_time + timeout

(* ------------------------------------------------------------------------ *)
(* C28: a response with a status below 500, every 4xx response included, is *)
(* reported to the breaker as a success: failure_count is reset to 0 and    *)
(* the state set to closed, also when the call was the half-open trial. A   *)
(* breaker is open only after failure_threshold failure reports with no     *)
(* such response between them, so a host whose failed calls alternate with  *)
(* calls answered 4xx never has its circuit opened.                         *)
(* ------------------------------------------------------------------------ *)
\* the call of thread t has been answered with a status below 500
Answered(t) ==
    pc[t] = "done" /\ local[t].result.kind = "response" /\ local[t].result.status < 500

C28_Reported ==
    \A t \in Threads :
        Answered(t) =>
            /\ local[t].nSuccess = 1
            /\ local[t].nFailure = 0
            /\ breakers[local[t].cb].failure_count = 0
            /\ breakers[local[t].cb].state = "closed"
            /\ consec[Host(local[t].url)] = 0

\* every answer below 500 goes to on_success, whatever the state
C28_Step ==
    \A t \in Threads :
        \A o \in NetOutcomes :
            (Attempt(t, o) /\ o.type = "response" /\ o.status < 500)
                => pc'[t] = "on_success_count"

\* not closed: failure_threshold failure reports since the last success
\* report (on_success resets the count before it writes the state)
C28_OpenNeedsFailuresInARow ==
    \A h \in Hosts :
        (/\ HasBreaker(h)
         /\ BreakerOf(h).state # "closed"
         /\ \A t \in Threads : pc[t] # "on_success_state")
            => consec[h] >= failure_threshold

RecoverHost == Host(RecoverUrl)

ClosedAndReset ==
    /\ HasBreaker(RecoverHost)
    /\ BreakerOf(RecoverHost).state = "closed"
    /\ BreakerOf(RecoverHost).failure_count = 0

\* a call is at the circuit check of the open breaker, the timeout elapsed
TrialDue ==
    \E t \in Threads :
        /\ pc[t] = "call"
        /\ breakers[local[t].cb].state = "open"
        /\ now - breakers[local[t].cb].last_failure_time > timeout

NotOpen == HasBreaker(RecoverHost) /\ BreakerOf(RecoverHost).state # "open"

C29_RecoversAndStaysClosed == (<>[]ClosedAndReset) /\ (TrialDue ~> NotOpen)

\* the breaker, opened and opened again by a failed trial at time 61, is
\* closed by the trial made after the host has recovered
C29_Witness ==
    /\ Quiet
    /\ now >= HealTime
    /\ ClosedAndReset
    /\ BreakerOf(RecoverHost).last_failure_time > timeout

(* ------------------------------------------------------------------------ *)
(* C30: the client holds at most one breaker per host, also when the first  *)
(* calls to a host overlap: every call to the host works with the breaker   *)
(* the registry holds for it, so no report goes to a breaker that later     *)
(* calls do not see.                                                        *)
(* ------------------------------------------------------------------------ *)
C30_OneBreakerPerHost ==
    \A t \in Threads :
        local[t].cb # 0 => local[t].cb = circuit_breakers[local[t].host]
=============================================================================
